---------------------------- MODULE Spec2Model ----------------------------
(***************************************************************************)
(* A model of src/app.py, the "JSON Extraction Methods Test" script: the   *)
(* workflow that main() invokes (the second definition of                  *)
(* test_extraction_methods_workflow, which shadows the first), the         *)
(* completion heuristic wait_for_processing_simple, the six extraction     *)
(* methods, analyze_methods, is_valid_json and extract_content_simple.     *)
(*                                                                         *)
(* Strings are sequences of tokens.  A token stands for a fixed piece of   *)
(* text, so that length, HTML-entity decoding, substring tests and JSON    *)
(* parsing are computed and not assumed:                                   *)
(*    "{" "}" "[" "]" ":" ","   the JSON punctuation, one character each   *)
(*    "1"     a JSON number, one character                                 *)
(*    "S"     the JSON string literal "big_chunks" with its two quotes     *)
(*    "E"     the same literal with entity quotes, &quot;big_chunks&quot;  *)
(*    "NaN"   the bare word NaN                                            *)
(*    "W"     a run of one hundred spaces                                  *)
(* Time is counted in tenths of a second.                                  *)
(***************************************************************************)
EXTENDS Integers, Sequences, FiniteSets, TLC

VARIABLES
    pc,                 \* position of the running function
    fn_in, fn_out,      \* argument and result of a function checked alone
    \* test_extraction_methods_workflow
    content,            \* what extract_content_simple returned
    driver,             \* the local variable driver: "None" or "driver"
    created,            \* browsers that webdriver.Chrome has started
    browsers,           \* browsers still running
    quitCalls,          \* calls of driver.quit()
    exc,                \* exception in flight inside the try block
    raised,             \* exception that left the workflow towards main
    ui,                 \* what the page shows: messages and the download button
    download,           \* data given to st.download_button
    steps,              \* the steps taken so far, in order
    processing_complete,\* what wait_for_processing_simple returned
    \* wait_for_processing_simple
    now,                \* the clock, in tenths of a second
    start_time, end_time,
    fetch_count, seen_requests,
    observed,           \* matching log entries get_log has delivered so far
    button_found,       \* whether the fallback wait located the copy button
    \* test_extraction_methods, analyze_methods, display_extraction_results
    methods,            \* the dictionary of results, by method name
    result,             \* what analyze_methods returned
    \* test_simple_extraction_methods
    copy_button,        \* the element chosen, "None" before the choice
    tried,              \* the selectors find_elements was called with, in order
    dom                 \* the elements of the page that match each selector

pureVars == <<fn_in, fn_out>>
flowVars == <<content, driver, created, browsers, quitCalls, exc, raised, ui,
              download, steps, processing_complete>>
waitVars == <<now, start_time, end_time, fetch_count, seen_requests, observed,
              button_found>>
extractVars == <<methods, result>>
simpleVars == <<copy_button, tried, dom>>
vars == <<pc, pureVars, flowVars, waitVars, extractVars, simpleVars>>

(***************************************************************************)
(* Bounds of the model.                                                    *)
(***************************************************************************)
MaxLen == 3             \* longest token sequence enumerated for is_valid_json
MaxBatch == 2           \* most log entries one get_log call delivers
MaxNodes == 2           \* most containers of a fetched document
MaxKeys == 3            \* most entries of a dictionary given to analyze_methods

(***************************************************************************)
(* Python values.                                                          *)
(***************************************************************************)
None == <<"<None>">>            \* Python's None, unequal to every string
EmptyStr == <<>>

Truthy(v) == v # None /\ v # EmptyStr

Min(a, b) == IF a < b THEN a ELSE b

TokenLen(t) ==
    CASE t = "W" -> 100
      [] t = "S" -> 12
      [] t = "E" -> 22
      [] t = "NaN" -> 3
      [] OTHER -> 1

RECURSIVE PyLen(_)
PyLen(s) == IF s = <<>> THEN 0 ELSE TokenLen(Head(s)) + PyLen(Tail(s))

\* html.unescape: &quot; becomes the quote character, everything else is kept
UnescapeToken(t) == IF t = "E" THEN "S" ELSE t

HtmlUnescape(s) == [i \in 1..Len(s) |-> UnescapeToken(s[i])]

Contains(s, t) == \E i \in 1..Len(s) : s[i] = t

(***************************************************************************)
(* json.loads, as CPython's decoder parses a document: leading, trailing   *)
(* and separating whitespace is skipped, one value must span the whole     *)
(* text, and the literal set tells which bare words are values.            *)
(***************************************************************************)
StandardLiterals == {"S", "1"}
PythonLiterals == StandardLiterals \cup {"NaN"}

IsNotSpace(t) == t # "W"

RECURSIVE ParseValue(_, _, _), ParseElements(_, _, _), ParseMembers(_, _, _)

\* Each parser takes the tokens s and a position i and returns the position
\* after what it parsed, or 0 when the text is malformed there.
ParseValue(s, i, lits) ==
    IF i > Len(s) THEN 0
    ELSE IF s[i] \in lits THEN i + 1
    ELSE IF s[i] = "[" THEN
        IF i + 1 > Len(s) THEN 0
        ELSE IF s[i + 1] = "]" THEN i + 2
        ELSE ParseElements(s, i + 1, lits)
    ELSE IF s[i] = "{" THEN
        IF i + 1 > Len(s) THEN 0
        ELSE IF s[i + 1] = "}" THEN i + 2
        ELSE ParseMembers(s, i + 1, lits)
    ELSE 0

ParseElements(s, i, lits) ==
    LET j == ParseValue(s, i, lits) IN
    IF j = 0 \/ j > Len(s) THEN 0
    ELSE IF s[j] = "," THEN ParseElements(s, j + 1, lits)
    ELSE IF s[j] = "]" THEN j + 1
    ELSE 0

ParseMembers(s, i, lits) ==
    IF i + 1 > Len(s) THEN 0
    ELSE IF s[i] # "S" \/ s[i + 1] # ":" THEN 0
    ELSE LET j == ParseValue(s, i + 2, lits) IN
         IF j = 0 \/ j > Len(s) THEN 0
         ELSE IF s[j] = "," THEN ParseMembers(s, j + 1, lits)
         ELSE IF s[j] = "}" THEN j + 1
         ELSE 0

ParsesAs(s, lits) ==
    LET t == SelectSeq(s, IsNotSpace) IN ParseValue(t, 1, lits) = Len(t) + 1

\* json.loads(text): "ok", or the exception it raises
JsonLoads(text) ==
    IF text = None THEN "TypeError"
    ELSE IF ParsesAs(text, PythonLiterals) THEN "ok"
    ELSE "JSONDecodeError"

\* is_valid_json: True when json.loads returned, False when it raised
is_valid_json(text) == JsonLoads(text) = "ok"

\* RFC 8259: the grammar without the bare words NaN, Infinity, -Infinity
StandardJson(text) == text # None /\ ParsesAs(text, StandardLiterals)

(***************************************************************************)
(* is_valid_json checked alone, over every short token sequence, None and  *)
(* a few longer documents.                                                 *)
(***************************************************************************)
JsonAlphabet == {"{", "}", "[", "]", ":", ",", "S", "E", "1", "NaN"}

JsonSamples ==
    { <<"{", "S", ":", "1", "}">>,
      <<"{", "S", ":", "[", "1", ",", "S", "]", "}">>,
      <<"{", "S", ":", "1", ",", "S", ":", "{", "}", "}">>,
      <<"{", "S", ":", "[", "1", ",">>,
      <<"{", "E", ":", "1", "}">>,
      <<"W", "{", "S", ":", "NaN", "}", "W">>,
      <<"W">> }

JsonInputs ==
    {None} \cup JsonSamples
           \cup UNION { [1..n -> JsonAlphabet] : n \in 0..MaxLen }

(***************************************************************************)
(* Values the variables hold while the function they belong to is not      *)
(* running.                                                                *)
(***************************************************************************)
PureIdle == fn_in = None /\ fn_out = None

SimpleIdle == copy_button = "None" /\ tried = <<>> /\ dom = <<>>

FlowIdle ==
    /\ content = None
    /\ driver = "None"
    /\ created = 0
    /\ browsers = 0
    /\ quitCalls = 0
    /\ exc = "none"
    /\ raised = "none"
    /\ ui = {}
    /\ download = None
    /\ steps = <<>>
    /\ processing_complete = "unset"

WaitIdle ==
    /\ now = 0
    /\ start_time = 0
    /\ end_time = 0
    /\ fetch_count = 0
    /\ seen_requests = {}
    /\ observed = {}
    /\ button_found = FALSE

ExtractIdle == methods = <<>> /\ result = None

JsonInit ==
    /\ pc = "json_call"
    /\ fn_in \in JsonInputs
    /\ fn_out = None
    /\ FlowIdle /\ WaitIdle /\ ExtractIdle /\ SimpleIdle

IsValidJsonCall ==
    /\ pc = "json_call"
    /\ pc' = "json_return"
    /\ fn_out' = is_valid_json(fn_in)
    /\ UNCHANGED <<fn_in, flowVars, waitVars, extractVars, simpleVars>>

JsonSpec == JsonInit /\ [][IsValidJsonCall]_vars

(***************************************************************************)
(* extract_content_simple.  A text that may be thousands of characters     *)
(* long is a sequence of pieces; a piece is n characters: n copies of the  *)
(* character text, or the literal text itself when it is a phrase of n     *)
(* characters.  A document is the sequence of its containers in document   *)
(* order, each with the tag a selector would match and its text.           *)
(***************************************************************************)
TextLimit == 2000       \* soup.get_text()[:2000]

ContentPrefix == [text |-> "CONTENT: ", n |-> 9]

FallbackContent ==
    << [text |-> "Test content for JSON extraction methods testing.", n |-> 49] >>

RECURSIVE PieceLen(_)
PieceLen(t) == IF t = <<>> THEN 0 ELSE Head(t).n + PieceLen(Tail(t))

\* The slice left out
TakeAll(t, k) == t

\* t[:k]
RECURSIVE Take(_, _)
Take(t, k) ==
    IF k <= 0 \/ t = <<>> THEN <<>>
    ELSE IF Head(t).n <= k THEN <<Head(t)>> \o Take(Tail(t), k - Head(t).n)
    ELSE << [text |-> Head(t).text, n |-> k] >>

\* soup.get_text(): the text of every node of the document, in order
RECURSIVE GetText(_)
GetText(doc) == IF doc = <<>> THEN <<>> ELSE Head(doc).text \o GetText(Tail(doc))

\* page.ok is FALSE when requests.get or the parser raises
extract_content_simple(page) ==
    IF page.ok
    THEN <<ContentPrefix>> \o Take(GetText(page.doc), TextLimit)
    ELSE FallbackContent

Tags == {"main", "article", "div"}

Texts ==
    { << [text |-> "a", n |-> 1500] >>,
      << [text |-> "b", n |-> 800] >>,
      << [text |-> "c", n |-> 1] >> }

Containers == [tag : Tags, text : Texts]

Documents == UNION { [1..n -> Containers] : n \in 0..MaxNodes }

Pages == [ok : {TRUE}, doc : Documents] \cup [ok : {FALSE}, doc : {<<>>}]

FetchInit ==
    /\ pc = "fetch_call"
    /\ fn_in \in Pages
    /\ fn_out = None
    /\ FlowIdle /\ WaitIdle /\ ExtractIdle /\ SimpleIdle

ExtractContentCall ==
    /\ pc = "fetch_call"
    /\ pc' = "fetch_return"
    /\ fn_out' = extract_content_simple(fn_in)
    /\ UNCHANGED <<fn_in, flowVars, waitVars, extractVars, simpleVars>>

FetchSpec == FetchInit /\ [][ExtractContentCall]_vars

(***************************************************************************)
(* wait_for_processing_simple.                                             *)
(***************************************************************************)
RequiredFetches == 4    \* fetch_count < 4
PollWindow == 600       \* time.time() - start_time < 60
PollSleep == 3          \* time.sleep(0.3)
SettleSleep == 10       \* time.sleep(1)
FallbackWindow == 600   \* WebDriverWait(driver, 60)
WaitPollInterval == 5   \* WebDriverWait's default poll_frequency, 0.5 s
ImplicitWait == 150     \* driver.implicitly_wait(15)

endpoint == "index.NJ4tUjPs809"

\* The performance-log entries the browser may deliver.  An entry is a
\* dictionary; message stands for the words of its text.
LogUniverse ==
    { [timestamp |-> "1001", message |-> <<endpoint, "fetch">>],
      [timestamp |-> "1001", message |-> <<endpoint, "Fetch">>],
      [timestamp |-> "1002", message |-> <<endpoint, "fetch">>],
      [timestamp |-> "1003", message |-> <<"xhr", endpoint, "fetch">>],
      [message |-> <<endpoint, "fetch">>],
      [timestamp |-> "1002", message |-> <<endpoint, "xhr">>],
      [timestamp |-> "1003", message |-> <<"other.js", "fetch">>] }

LogBatches == UNION { [1..n -> LogUniverse] : n \in 0..MaxBatch }

DictGet(d, key, default) == IF key \in DOMAIN d THEN d[key] ELSE default

\* str(log): the text of the dictionary, every key with its value
StrOf(log) ==
    (IF "timestamp" \in DOMAIN log THEN <<"timestamp", log.timestamp>> ELSE <<>>)
        \o <<"message">> \o log.message

\* str.lower(), word by word
LowerWord(w) ==
    CASE w = "Fetch" -> "fetch"
      [] w = endpoint -> "index.nj4tujps809"
      [] OTHER -> w

Lower(s) == [i \in 1..Len(s) |-> LowerWord(s[i])]

\* hash(str(log)): equal texts hash alike, and no two texts of LogUniverse
\* collide
Hash(s) == s

\* endpoint in str(log) and 'fetch' in str(log).lower()
IsFetchLog(log) == Contains(StrOf(log), endpoint) /\ Contains(Lower(StrOf(log)), "fetch")

\* f"{log.get('timestamp', 0)}_{hash(str(log))}"
LogId(log) == <<DictGet(log, "timestamp", "0"), Hash(StrOf(log))>>

FetchLogs == { log \in LogUniverse : IsFetchLog(log) }
LogIdOf == [ log \in LogUniverse |-> LogId(log) ]

\* The entry counted whenever it matches, seen before or not
IsCountedAgain(log, seen) == log \in FetchLogs

\* Whether the entry is counted: it matches and its identifier is new
IsCounted(log, seen) == log \in FetchLogs /\ LogIdOf[log] \notin seen

\* The for loop over one batch of logs.  done tells that the fourth fetch
\* was counted, which returns from the function in the middle of the batch.
RECURSIVE ScanLogs(_, _, _)
ScanLogs(logs, seen, count) ==
    IF logs = <<>> THEN [seen |-> seen, count |-> count, done |-> FALSE]
    ELSE IF IsCounted(Head(logs), seen) THEN
        IF count + 1 >= RequiredFetches
        THEN [seen |-> seen \cup {LogIdOf[Head(logs)]}, count |-> count + 1,
              done |-> TRUE]
        ELSE ScanLogs(Tail(logs), seen \cup {LogIdOf[Head(logs)]}, count + 1)
    ELSE ScanLogs(Tail(logs), seen, count)

\* while fetch_count < 4 and time.time() - start_time < 60
LoopCondition(count, t, start) == count < RequiredFetches /\ t - start < PollWindow

\* A sleep that lets no time pass
AfterSleepStuck(t, d) == t

\* The clock after time.sleep(d), called at time t
AfterSleep(t, d) == t + d

\* The value returned at each return statement of the function
WaitReturnSites == {"wait_return_fetch", "wait_return_button", "wait_return_except"}

\* The except branch of the fallback returning True as well
WaitReturnAlwaysTrue(site) == TRUE

WaitReturnValue(site) ==
    CASE site = "wait_return_fetch" -> TRUE
      [] site = "wait_return_button" -> TRUE
      [] site = "wait_return_except" -> FALSE

MatchingIn(logs) == { logs[i] : i \in 1..Len(logs) } \cap FetchLogs

\* The locals as the function sets them on entry, at time t
WaitEntry(t) ==
    /\ start_time' = t
    /\ end_time' = 0
    /\ fetch_count' = 0
    /\ seen_requests' = {}
    /\ observed' = {}
    /\ button_found' = FALSE

\* One pass of the while body up to the sleep: get_log raises, which the
\* bare except swallows, or its entries are scanned.  The time the call
\* itself takes is not counted.
WaitPoll ==
    /\ pc = "wait_loop"
    /\ LoopCondition(fetch_count, now, start_time)
    /\ \/ /\ pc' = "wait_sleep"
          /\ UNCHANGED <<now, fetch_count, seen_requests, observed>>
       \/ \E logs \in LogBatches :
            LET r == ScanLogs(logs, seen_requests, fetch_count) IN
            /\ seen_requests' = r.seen
            /\ fetch_count' = r.count
            /\ observed' = observed \cup MatchingIn(logs)
            /\ IF r.done
               THEN /\ pc' = "wait_return_fetch"
                    /\ now' = AfterSleep(now, SettleSleep)
               ELSE /\ pc' = "wait_sleep"
                    /\ UNCHANGED now
    /\ UNCHANGED <<start_time, end_time, button_found>>
    /\ UNCHANGED <<pureVars, flowVars, extractVars, simpleVars>>

\* time.sleep(0.3) at the end of the while body
WaitSleep ==
    /\ pc = "wait_sleep"
    /\ pc' = "wait_loop"
    /\ now' = AfterSleep(now, PollSleep)
    /\ UNCHANGED <<start_time, end_time, fetch_count, seen_requests, observed,
                   button_found>>
    /\ UNCHANGED <<pureVars, flowVars, extractVars, simpleVars>>

\* The while condition fails: the fallback wait starts
WaitLoopExit ==
    /\ pc = "wait_loop"
    /\ ~LoopCondition(fetch_count, now, start_time)
    /\ pc' = "wait_fallback"
    /\ end_time' = now + FallbackWindow
    /\ UNCHANGED <<now, start_time, fetch_count, seen_requests, observed,
                   button_found>>
    /\ UNCHANGED <<pureVars, flowVars, extractVars, simpleVars>>

\* One pass of WebDriverWait.until: the element is found; or the lookup
\* gives up after the implicit wait, until sleeps, and raises
\* TimeoutException when the clock has passed end_time; or the driver
\* raises another exception.
WaitFallbackPoll ==
    /\ pc = "wait_fallback"
    /\ \/ /\ button_found' = TRUE
          /\ now' = AfterSleep(now, SettleSleep)
          /\ pc' = "wait_return_button"
       \/ /\ now' = AfterSleep(now + ImplicitWait, WaitPollInterval)
          /\ pc' = IF now' > end_time THEN "wait_return_except" ELSE pc
          /\ UNCHANGED button_found
       \/ /\ pc' = "wait_return_except"
          /\ UNCHANGED <<now, button_found>>
    /\ UNCHANGED <<start_time, end_time, fetch_count, seen_requests, observed>>
    /\ UNCHANGED <<pureVars, flowVars, extractVars, simpleVars>>

WaitInit ==
    /\ pc = "wait_loop"
    /\ PureIdle /\ FlowIdle /\ ExtractIdle /\ WaitIdle /\ SimpleIdle

WaitNext == WaitPoll \/ WaitSleep \/ WaitLoopExit \/ WaitFallbackPoll

WaitSpec == WaitInit /\ [][WaitNext]_vars

\* The script is one thread: whenever a step can be taken, one is taken
WaitFairSpec == WaitSpec /\ WF_vars(WaitNext)

(***************************************************************************)
(* test_extraction_methods.  The page belongs to another application and   *)
(* may change at any time, so every read of it is a free choice among the  *)
(* values below; Raise stands for a call that raises.  An entry of         *)
(* methods keeps the keys that analyze_methods and the report read:        *)
(* 'error', or 'content' with 'valid_json'.                                *)
(***************************************************************************)
SubstantialLen == 100   \* len(value) > 100
NAttempts == 5          \* for i in range(5)

Raise == <<"<raise>">>

ValidClip == <<"W", "{", "E", ":", "1", "}">>       \* complete, entity-encoded
PartialClip == <<"W", "W", "{", "E", ":">>            \* cut short, and longer

\* copy_button.get_attribute('data-clipboard-text')
ClipReads == {None, EmptyStr, ValidClip, PartialClip, Raise}
\* the same read inside the attempts of Method 6, where None and '' alike
\* are skipped
AttemptReads == {None, ValidClip, PartialClip}
\* get_attribute of title, aria-label, innerHTML and the like
OtherReads == {None, ValidClip, Raise}
\* copy_button.text and its innerHTML
TextReads == {EmptyStr, <<"{", "S", ":", "1", "}">>, <<"{", "S", ":", "E">>, Raise}
InnerReads == {None, EmptyStr, <<"{", "S", ":", "E">>, Raise}
\* driver.page_source
SourceReads == {<<"W">>, <<"E", "S">>, Raise}

MethodOrder ==
    <<"Method 1", "Method 2", "Method 3", "Method 4", "Method 5", "Method 6">>

ErrorEntry(msg) == [error |-> msg]

\* The entry a method stores for text: the flag is computed from the
\* stored text
ContentEntry(text) == [content |-> text, valid_json |-> is_valid_json(text)]

\* methods = {key: entry}: the dictionary started afresh
PutReplacing(d, key, entry) == [k \in {key} |-> entry]

\* methods[key] = entry
Put(d, key, entry) ==
    [k \in DOMAIN d \cup {key} |-> IF k = key THEN entry ELSE d[k]]

\* Method 1: find_element, then get_attribute; found is FALSE when
\* find_element raises
Method1Entry(found, raw) ==
    IF ~found \/ raw = Raise THEN ErrorEntry("exception")
    ELSE IF Truthy(raw) THEN ContentEntry(HtmlUnescape(raw))
    ELSE ErrorEntry("No content found")

\* Method 2: execute_script returns the attribute, or null without a button
Method2Entry(raw) ==
    IF raw = Raise THEN ErrorEntry("exception")
    ELSE IF Truthy(raw) THEN ContentEntry(HtmlUnescape(raw))
    ELSE ErrorEntry("No content found")

\* Method 3
attributes_to_check ==
    <<"data-clipboard-text", "data-clipboard-target", "title", "aria-label",
      "innerHTML", "textContent">>

AttrError == -1         \* stands for the string 'error' in attribute_results

AttrReads(i) == IF attributes_to_check[i] = "data-clipboard-text"
                THEN ClipReads ELSE OtherReads

\* attribute_results[attr] for the value read
AttrResult(i, value) ==
    IF value = Raise THEN AttrError
    ELSE IF Truthy(value) /\ PyLen(value) > SubstantialLen
    THEN IF attributes_to_check[i] = "data-clipboard-text"
         THEN PyLen(HtmlUnescape(value)) ELSE PyLen(value)
    ELSE 0

\* max(keys, key=...): the first key, in order, whose key value is greatest
SortKey(x) == IF x = AttrError THEN 0 ELSE x

BestAttr(res) ==
    CHOOSE i \in 1..Len(res) :
        /\ \A j \in 1..Len(res) : SortKey(res[j]) <= SortKey(res[i])
        /\ \A j \in 1..(i - 1) : SortKey(res[j]) < SortKey(res[i])

\* reads: what each attribute read returned; again: the second read of the
\* best attribute
Method3Entry(found, reads, again) ==
    IF ~found THEN ErrorEntry("exception")
    ELSE LET res == [i \in 1..Len(reads) |-> AttrResult(i, reads[i])]
             best == BestAttr(res)
         IN  IF res[best] = AttrError THEN ErrorEntry("exception")
             ELSE IF res[best] > SubstantialLen THEN
                  IF again = Raise \/ again = None THEN ErrorEntry("exception")
                  ELSE IF attributes_to_check[best] = "data-clipboard-text"
                       THEN ContentEntry(HtmlUnescape(again))
                       ELSE ContentEntry(again)
             ELSE ErrorEntry("No substantial content in any attribute")

\* The second read of Method 3 is of the best attribute
AgainReads(reads) ==
    LET res == [i \in 1..Len(reads) |-> AttrResult(i, reads[i])]
    IN  AttrReads(BestAttr(res))

\* Method 4: '"big_chunks"' in the element's text, else in its innerHTML
Method4Entry(found, text, inner) ==
    IF ~found \/ text = Raise \/ inner = Raise \/ inner = None
    THEN ErrorEntry("exception")
    ELSE IF Contains(text, "S") THEN ContentEntry(text)
    ELSE IF Contains(inner, "S") THEN ContentEntry(HtmlUnescape(inner))
    ELSE ErrorEntry("No JSON content found in text or HTML")

\* Method 5.  Every match of the three patterns is a piece of the page
\* source, and best_match is the longest of them, or None: the patterns
\* are not evaluated, each non-empty piece is a possible best_match.
Pieces(src) ==
    { SubSeq(src, i, j) : i \in 1..Len(src), j \in 1..Len(src) } \ {<<>>}

Matches(src) == {None} \cup Pieces(src)

Method5Entry(src, best_match) ==
    IF src = Raise THEN ErrorEntry("exception")
    ELSE IF ~Contains(src, "S") THEN ErrorEntry("No big_chunks found in page source")
    ELSE IF best_match = None THEN ErrorEntry("No JSON pattern found in page source")
    ELSE ContentEntry(HtmlUnescape(best_match))

\* Method 6.  attempts: one record for each read that returned text
RECURSIVE AttemptsOf(_, _)
AttemptsOf(reads, i) ==
    IF i > Len(reads) THEN <<>>
    ELSE (IF Truthy(reads[i])
          THEN << [attempt |-> i,
                   length |-> PyLen(HtmlUnescape(reads[i])),
                   valid |-> is_valid_json(HtmlUnescape(reads[i]))] >>
          ELSE <<>>) \o AttemptsOf(reads, i + 1)

IsValidAttempt(a) == a.valid

\* The entry stored after the attempts found valid JSON: the attribute is
\* read once more and stored, with the flag set
Method6Final(final) ==
    [content |-> HtmlUnescape(final), valid_json |-> TRUE]

\* found: find_element returned; reads: the five reads, or Raise when one
\* of them raised; final: the read after the attempts
Method6Entry(found, reads, final) ==
    IF ~found \/ reads = Raise THEN ErrorEntry("exception")
    ELSE LET attempts == AttemptsOf(reads, 1)
             valid_attempts == SelectSeq(attempts, IsValidAttempt)
         IN  IF attempts = <<>> THEN ErrorEntry("No content found in any attempt")
             ELSE IF valid_attempts = <<>>
                  THEN ErrorEntry("No valid JSON in any attempt")
             ELSE IF final = Raise \/ final = None THEN ErrorEntry("exception")
             ELSE Method6Final(final)

(***************************************************************************)
(* analyze_methods.                                                        *)
(***************************************************************************)
\* The filter without the valid_json test
IsValidMethodAnyContent(entry) == "content" \in DOMAIN entry

\* 'content' in result and result.get('valid_json', False)
IsValidMethod(entry) ==
    "content" \in DOMAIN entry /\ DictGet(entry, "valid_json", FALSE)

\* The keys of d in the order they were inserted
KeysInOrder(d) == SelectSeq(MethodOrder, LAMBDA k : k \in DOMAIN d)

\* The first valid method instead of the longest
BestMethodFirst(d, keys) == keys[1]

\* max(valid_methods.keys(), key=lambda k: len(valid_methods[k]['content'])):
\* the first key, in insertion order, with the longest content
BestMethod(d, keys) ==
    LET i == CHOOSE i \in 1..Len(keys) :
                /\ \A j \in 1..Len(keys) :
                      PyLen(d[keys[j]].content) <= PyLen(d[keys[i]].content)
                /\ \A j \in 1..(i - 1) :
                      PyLen(d[keys[j]].content) < PyLen(d[keys[i]].content)
    IN  keys[i]

\* None, or the pair (best_method, best_result)
analyze_methods(d) ==
    LET valid_keys == SelectSeq(KeysInOrder(d), LAMBDA k : IsValidMethod(d[k]))
    IN  IF valid_keys = <<>> THEN None
        ELSE <<BestMethod(d, valid_keys), d[BestMethod(d, valid_keys)]>>

(***************************************************************************)
(* setup_driver.                                                           *)
(***************************************************************************)
\* outcome "chrome_raises": webdriver.Chrome raises; "config_raises": the
\* browser started and set_page_load_timeout or implicitly_wait raises;
\* "ok": the driver is returned.  started tells whether a browser runs.
SetupOutcomes == {"chrome_raises", "config_raises", "ok"}

setup_driver(outcome) ==
    [ driver  |-> IF outcome = "ok" THEN "driver" ELSE "None",
      started |-> outcome # "chrome_raises",
      error   |-> outcome # "ok" ]

(***************************************************************************)
(* test_extraction_methods_workflow, as main() invokes it.                 *)
(***************************************************************************)
\* The pages the URL may lead to in a run of the workflow
WorkflowPages ==
    { [ok |-> TRUE, doc |-> << [tag |-> "main", text |-> << [text |-> "a", n |-> 1500] >>] >>],
      [ok |-> FALSE, doc |-> <<>>] }

Step(name) == steps' = Append(steps, name)

Show(messages) == ui' = ui \cup messages

Init ==
    /\ pc = "start"
    /\ PureIdle /\ FlowIdle /\ WaitIdle /\ ExtractIdle /\ SimpleIdle

\* content = extract_content_simple(url); st.success
ExtractContent ==
    /\ pc = "start"
    /\ \E page \in WorkflowPages : content' = extract_content_simple(page)
    /\ Show({"content_ready"})
    /\ Step("fetch")
    /\ pc' = "setup"
    /\ UNCHANGED <<driver, created, browsers, quitCalls, exc, raised, download,
                   processing_complete>>
    /\ UNCHANGED <<pureVars, waitVars, extractVars, simpleVars>>

\* driver = setup_driver()
SetupDriver ==
    /\ pc = "setup"
    /\ \E outcome \in SetupOutcomes :
        LET r == setup_driver(outcome) IN
        /\ driver' = r.driver
        /\ created' = IF r.started THEN created + 1 ELSE created
        /\ browsers' = IF r.started THEN browsers + 1 ELSE browsers
        /\ Show(IF r.error THEN {"driver_setup_failed"} ELSE {})
    /\ Step("setup")
    /\ pc' = "navigate"
    /\ UNCHANGED <<content, quitCalls, exc, raised, download, processing_complete>>
    /\ UNCHANGED <<pureVars, waitVars, extractVars, simpleVars>>

\* The statements of the try block up to the call of the wait, submit
\* before the input
TryBlockOrderSubmitFirst ==
    <<"navigate", "find_submit", "click", "find_input", "fill", "call_wait">>

\* The statements of the try block up to the call of the wait, in the
\* order the function lists them
TryBlockOrder ==
    <<"navigate", "find_input", "fill", "find_submit", "click", "call_wait">>

\* The statement control reaches when statement p returns
Following(p) ==
    TryBlockOrder[(CHOOSE i \in 1..(Len(TryBlockOrder) - 1) : TryBlockOrder[i] = p) + 1]

\* A call on the driver inside the try block: it returns, or it raises
\* err.  The try has no except clause, so an exception goes to the finally
\* block.
DriverCall(next, err, stepName) ==
    /\ \E outcome \in {"returns", "raises"} :
        /\ pc' = IF outcome = "returns" THEN next ELSE "finally"
        /\ exc' = IF outcome = "returns" THEN exc ELSE err
        /\ steps' = IF outcome = "returns" /\ stepName # ""
                    THEN Append(steps, stepName) ELSE steps
    /\ UNCHANGED <<content, driver, created, browsers, quitCalls, raised, ui,
                   download, processing_complete>>
    /\ UNCHANGED <<pureVars, waitVars, extractVars, simpleVars>>

\* The first statement of the try block with driver None: None has no
\* attribute get
NavigateWithoutDriver ==
    /\ pc = "navigate"
    /\ driver = "None"
    /\ exc' = "AttributeError"
    /\ pc' = "finally"
    /\ UNCHANGED <<content, driver, created, browsers, quitCalls, raised, ui,
                   download, steps, processing_complete>>
    /\ UNCHANGED <<pureVars, waitVars, extractVars, simpleVars>>

\* driver.get("https://chunk.dejan.ai/"); time.sleep(5)
Navigate ==
    pc = "navigate" /\ driver # "None" /\ DriverCall(Following("navigate"), "WebDriverException", "navigate")

\* wait.until(EC.presence_of_element_located((By.ID, "text_area_1")))
FindInput == pc = "find_input" /\ DriverCall(Following("find_input"), "TimeoutException", "")

\* input_field.clear(); input_field.send_keys(content)
FillInput == pc = "fill" /\ DriverCall(Following("fill"), "WebDriverException", "fill")

\* wait.until(EC.element_to_be_clickable(...))
FindSubmit == pc = "find_submit" /\ DriverCall(Following("find_submit"), "TimeoutException", "")

\* submit_button.click()
ClickSubmit == pc = "click" /\ DriverCall(Following("click"), "WebDriverException", "submit")

\* processing_complete = wait_for_processing_simple(driver): the call
CallWait ==
    /\ pc = "call_wait"
    /\ pc' = "wait_loop"
    /\ WaitEntry(now)
    /\ Step("wait")
    /\ UNCHANGED now
    /\ UNCHANGED <<content, driver, created, browsers, quitCalls, exc, raised, ui,
                   download, processing_complete>>
    /\ UNCHANGED <<pureVars, extractVars, simpleVars>>

\* The workflow going on to the extraction whatever the wait returned
AfterWaitIgnored(complete) == "method1"

\* Where the workflow goes with the value the wait returned
AfterWait(complete) == IF complete THEN "method1" ELSE "finally"

\* The return of wait_for_processing_simple, and the if that follows it.
\* The locals of the wait are gone, and nothing reads the clock any more.
WaitReturned ==
    /\ pc \in WaitReturnSites
    /\ processing_complete' = IF WaitReturnValue(pc) THEN "True" ELSE "False"
    /\ pc' = AfterWait(WaitReturnValue(pc))
    /\ Show(IF WaitReturnValue(pc) THEN {"processing_complete"}
                                   ELSE {"processing_timeout"})
    /\ WaitEntry(0)
    /\ now' = 0
    /\ UNCHANGED <<content, driver, created, browsers, quitCalls, exc, raised,
                   download, steps>>
    /\ UNCHANGED <<pureVars, extractVars, simpleVars>>

\* methods = test_extraction_methods(driver): one action for each method.
\* The entries a method may store are what its code makes of every
\* combination of reads.
Method1Entries ==
    { Method1Entry(TRUE, raw) : raw \in ClipReads } \cup {Method1Entry(FALSE, Raise)}

Method2Entries == { Method2Entry(raw) : raw \in ClipReads }

AttrReadings ==
    { r \in [1..Len(attributes_to_check) -> ClipReads \cup OtherReads] :
        \A i \in 1..Len(attributes_to_check) : r[i] \in AttrReads(i) }

Method3Entries ==
    UNION { { Method3Entry(TRUE, reads, again) : again \in AgainReads(reads) } :
            reads \in AttrReadings }
        \cup {Method3Entry(FALSE, <<>>, Raise)}

Method4Entries ==
    { Method4Entry(TRUE, text, inner) : text \in TextReads, inner \in InnerReads }
        \cup {Method4Entry(FALSE, Raise, Raise)}

Method5Entries ==
    UNION { { Method5Entry(src, best_match) : best_match \in Matches(src) } :
            src \in SourceReads \ {Raise} }
        \cup {Method5Entry(Raise, None)}

AttemptReadings == [1..NAttempts -> AttemptReads] \cup {Raise}

Method6Entries ==
    { Method6Entry(TRUE, reads, final) :
          reads \in AttemptReadings, final \in ClipReads }
        \cup {Method6Entry(FALSE, Raise, None)}

\* What a method leaves alone, and where it goes next
MethodDone(next) ==
    /\ pc' = next
    /\ steps' = IF pc = "method1" THEN Append(steps, "extract") ELSE steps
    /\ UNCHANGED <<content, driver, created, browsers, quitCalls, exc, raised, ui,
                   download, processing_complete, result>>
    /\ UNCHANGED <<pureVars, waitVars, simpleVars>>

Method1 ==
    /\ pc = "method1"
    /\ \E entry \in Method1Entries : methods' = Put(methods, "Method 1", entry)
    /\ MethodDone("method2")

Method2 ==
    /\ pc = "method2"
    /\ \E entry \in Method2Entries : methods' = Put(methods, "Method 2", entry)
    /\ MethodDone("method3")

Method3 ==
    /\ pc = "method3"
    /\ \E entry \in Method3Entries : methods' = Put(methods, "Method 3", entry)
    /\ MethodDone("method4")

Method4 ==
    /\ pc = "method4"
    /\ \E entry \in Method4Entries : methods' = Put(methods, "Method 4", entry)
    /\ MethodDone("method5")

Method5 ==
    /\ pc = "method5"
    /\ \E entry \in Method5Entries : methods' = Put(methods, "Method 5", entry)
    /\ MethodDone("method6")

Method6 ==
    /\ pc = "method6"
    /\ \E entry \in Method6Entries : methods' = Put(methods, "Method 6", entry)
    /\ MethodDone("analyze")

\* result = analyze_methods(methods)
Analyze ==
    /\ pc = "analyze"
    /\ result' = analyze_methods(methods)
    /\ pc' = "report"
    /\ Step("analyze")
    /\ UNCHANGED <<content, driver, created, browsers, quitCalls, exc, raised, ui,
                   download, processing_complete, methods>>
    /\ UNCHANGED <<pureVars, waitVars, simpleVars>>

\* The data st.download_button is given for the pair analyze_methods returned
OfferedData(res) == res[2].content

\* if result: the winner and the download button; else the two messages
Report ==
    /\ pc = "report"
    /\ IF result # None
       THEN /\ Show({"winner", "download_button"})
            /\ download' = OfferedData(result)
       ELSE /\ Show({"no_method", "try_another_url"})
            /\ UNCHANGED download
    /\ pc' = "finally"
    /\ Step("report")
    /\ UNCHANGED <<content, driver, created, browsers, quitCalls, exc, raised,
                   processing_complete, methods, result>>
    /\ UNCHANGED <<pureVars, waitVars, simpleVars>>

\* finally: driver.quit().  With driver None the call itself raises
\* AttributeError, which replaces whatever was in flight.  Then the
\* function is left, and its locals with it.
Finally ==
    /\ pc = "finally"
    /\ IF driver = "None"
       THEN /\ raised' = "AttributeError"
            /\ UNCHANGED <<quitCalls, browsers>>
       ELSE /\ quitCalls' = quitCalls + 1
            /\ browsers' = browsers - 1
            /\ raised' = exc
    /\ pc' = "done"
    /\ exc' = "none"
    /\ content' = None
    /\ driver' = "None"
    /\ methods' = <<>>
    /\ result' = None
    /\ UNCHANGED <<created, ui, download, steps, processing_complete>>
    /\ UNCHANGED <<pureVars, waitVars, simpleVars>>

Next ==
    \/ ExtractContent \/ SetupDriver
    \/ NavigateWithoutDriver \/ Navigate \/ FindInput \/ FillInput
    \/ FindSubmit \/ ClickSubmit
    \/ CallWait \/ WaitPoll \/ WaitSleep \/ WaitLoopExit \/ WaitFallbackPoll
    \/ WaitReturned
    \/ Method1 \/ Method2 \/ Method3 \/ Method4 \/ Method5 \/ Method6
    \/ Analyze \/ Report \/ Finally

Spec == Init /\ [][Next]_vars

(***************************************************************************)
(* analyze_methods checked alone, over the dictionaries that hold the      *)
(* first n methods, each with any entry test_extraction_methods may store. *)
(***************************************************************************)
StoredEntries ==
    Method1Entries \cup Method2Entries \cup Method3Entries \cup Method4Entries
        \cup Method5Entries \cup Method6Entries

Dictionaries ==
    UNION { [{MethodOrder[i] : i \in 1..n} -> StoredEntries] : n \in 0..MaxKeys }

AnalyzeInit ==
    /\ pc = "analyze_call"
    /\ fn_in \in Dictionaries
    /\ fn_out = None
    /\ FlowIdle /\ WaitIdle /\ ExtractIdle /\ SimpleIdle

AnalyzeCall ==
    /\ pc = "analyze_call"
    /\ pc' = "analyze_return"
    /\ fn_out' = analyze_methods(fn_in)
    /\ UNCHANGED <<fn_in, flowVars, waitVars, extractVars, simpleVars>>

AnalyzeSpec == AnalyzeInit /\ [][AnalyzeCall]_vars

(***************************************************************************)
(* test_simple_extraction_methods and display_extraction_results, the      *)
(* pair the first definition of the workflow calls.                        *)
(***************************************************************************)
MinAttrLen == 50        \* len(value) > 50

PrimarySelector == "[data-testid=\"stCodeCopyButton\"]"

alternative_selectors ==
    <<"button[title*=\"copy\"]", "button[title*=\"Copy\"]",
      "[data-clipboard-text]", "button[data-testid*=\"copy\"]">>

\* What find_elements may return for a selector: the elements that match
ElementLists == {<<>>, <<"e1">>, <<"e2", "e1">>}

\* The page: for the primary selector and each alternative, what matches.
\* Each selector is queried at most once in a call, so what it matches at
\* that moment is all the call sees of the page.
PageMatches == [1..(1 + Len(alternative_selectors)) -> ElementLists]

\* The loop over the alternatives without its break: the last alternative
\* that matches supplies the list
RECURSIVE TryAlternativesNoBreak(_, _)
TryAlternativesNoBreak(page, i) ==
    IF i > Len(alternative_selectors) THEN [tried |-> <<>>, found |-> <<>>]
    ELSE LET rest == TryAlternativesNoBreak(page, i + 1)
         IN  [tried |-> <<alternative_selectors[i]>> \o rest.tried,
              found |-> IF rest.found # <<>> THEN rest.found ELSE page[i + 1]]

\* The selectors queried and the list copy_buttons ends with: the primary
\* one, then, if it matched nothing, the alternatives in order up to the
\* first that matches.  page[1] is for the primary selector.
RECURSIVE TryAlternatives(_, _)
TryAlternatives(page, i) ==
    IF i > Len(alternative_selectors) THEN [tried |-> <<>>, found |-> <<>>]
    ELSE IF page[i + 1] # <<>>
         THEN [tried |-> <<alternative_selectors[i]>>, found |-> page[i + 1]]
         ELSE LET rest == TryAlternatives(page, i + 1)
              IN  [tried |-> <<alternative_selectors[i]>> \o rest.tried,
                   found |-> rest.found]

FindCopyButtons(page) ==
    IF page[1] # <<>> THEN [tried |-> <<PrimarySelector>>, found |-> page[1]]
    ELSE LET alt == TryAlternatives(page, 1)
         IN  [tried |-> <<PrimarySelector>> \o alt.tried, found |-> alt.found]

\* An entry of the simple methods: 'length', 'valid_json', 'full_content'
FullEntry(text) ==
    [length |-> PyLen(text), valid_json |-> is_valid_json(text),
     full_content |-> text]

Simple1Entry(raw) ==
    IF raw = Raise THEN ErrorEntry("exception")
    ELSE IF Truthy(raw) THEN FullEntry(HtmlUnescape(raw))
    ELSE ErrorEntry("No content in data-clipboard-text")

\* Method 2 reads every attribute the element has; names: the attribute
\* names, reads: the value read for each, again: the second read of the
\* longest one
AttributeNames == {<<>>, <<"title">>, <<"title", "data-clipboard-text">>}

LongAttrs(names, reads) ==
    SelectSeq([i \in 1..Len(names) |-> i],
              LAMBDA i : Truthy(reads[i]) /\ PyLen(reads[i]) > MinAttrLen)

HasRaise(reads) == \E i \in 1..Len(reads) : reads[i] = Raise

\* max(all_attributes.keys(), key=...): the first of the longest
LongestAttr(long, reads) ==
    long[CHOOSE i \in 1..Len(long) :
            /\ \A j \in 1..Len(long) : PyLen(reads[long[j]]) <= PyLen(reads[long[i]])
            /\ \A j \in 1..(i - 1) : PyLen(reads[long[j]]) < PyLen(reads[long[i]])]

Simple2Entry(names, reads, again) ==
    IF names = Raise \/ HasRaise(reads) THEN ErrorEntry("exception")
    ELSE LET long == LongAttrs(names, reads) IN
         IF long = <<>> THEN [attributes |-> <<>>]
         ELSE IF again = Raise \/ again = None THEN ErrorEntry("exception")
         ELSE IF names[LongestAttr(long, reads)] = "data-clipboard-text"
              THEN FullEntry(HtmlUnescape(again))
              ELSE FullEntry(again)

Simple3Entry(js_result) ==
    IF js_result = Raise THEN ErrorEntry("exception")
    ELSE IF Truthy(js_result) THEN FullEntry(HtmlUnescape(js_result))
    ELSE ErrorEntry("JavaScript returned null")

\* What the simple methods may read: as above, and a short document
SimpleReads == ClipReads \cup {<<"{", "}">>}

Simple1Entries == { Simple1Entry(raw) : raw \in SimpleReads }

Simple2Entries ==
    UNION { UNION { { Simple2Entry(names, reads, again) : again \in SimpleReads } :
                    reads \in [1..Len(names) -> SimpleReads] } :
            names \in AttributeNames }
        \cup {Simple2Entry(Raise, <<>>, Raise)}

Simple3Entries == { Simple3Entry(raw) : raw \in SimpleReads }

SimpleOrder == <<"Method 1", "Method 2", "Method 3">>

\* 'full_content' in result and result.get('valid_json', False)
IsWorkingMethod(entry) ==
    "full_content" \in DOMAIN entry /\ DictGet(entry, "valid_json", FALSE)

\* max(working_methods.keys(), key=lambda k: working_methods[k]['length'])
BestWorking(d, keys) ==
    LET i == CHOOSE i \in 1..Len(keys) :
                /\ \A j \in 1..Len(keys) : d[keys[j]].length <= d[keys[i]].length
                /\ \A j \in 1..(i - 1) : d[keys[j]].length < d[keys[i]].length
    IN  keys[i]

WorkingKeys(d) ==
    SelectSeq(SimpleOrder, LAMBDA k : k \in DOMAIN d /\ IsWorkingMethod(d[k]))

\* What display_extraction_results shows for d, and the data it gives to
\* st.download_button
display_extraction_results(d) ==
    IF "error" \in DOMAIN d
    THEN [ui |-> {"error"}, download |-> None]
    ELSE IF WorkingKeys(d) # <<>>
    THEN [ui |-> {"found_working", "best_method", "download_button"},
          download |-> d[BestWorking(d, WorkingKeys(d))].full_content]
    ELSE [ui |-> {"no_working_method", "debug_information"}, download |-> None]

SimpleInit ==
    /\ pc = "simple_find"
    /\ PureIdle /\ FlowIdle /\ WaitIdle /\ ExtractIdle
    /\ copy_button = "None"
    /\ tried = <<>>
    /\ dom \in PageMatches

SimpleUnchanged ==
    /\ UNCHANGED <<content, driver, created, browsers, quitCalls, exc, raised,
                   steps, processing_complete, result>>
    /\ UNCHANGED <<pureVars, waitVars>>

\* The search for the copy button; without one the function returns
\* {'error': 'No copy button found'}
SimpleFindCopy ==
    /\ pc = "simple_find"
    /\ LET r == FindCopyButtons(dom) IN
        /\ tried' = r.tried
        /\ IF r.found = <<>>
           THEN /\ methods' = [error |-> "No copy button found"]
                /\ copy_button' = "None"
                /\ pc' = "simple_display"
           ELSE /\ copy_button' = r.found[1]
                /\ pc' = "simple_method1"
                /\ UNCHANGED methods
    /\ UNCHANGED <<ui, download, dom>>
    /\ SimpleUnchanged

SimpleMethodDone(next) ==
    /\ pc' = next
    /\ UNCHANGED <<ui, download, copy_button, tried, dom>>
    /\ SimpleUnchanged

SimpleMethod1 ==
    /\ pc = "simple_method1"
    /\ \E entry \in Simple1Entries : methods' = Put(methods, "Method 1", entry)
    /\ SimpleMethodDone("simple_method2")

SimpleMethod2 ==
    /\ pc = "simple_method2"
    /\ \E entry \in Simple2Entries : methods' = Put(methods, "Method 2", entry)
    /\ SimpleMethodDone("simple_method3")

SimpleMethod3 ==
    /\ pc = "simple_method3"
    /\ \E entry \in Simple3Entries : methods' = Put(methods, "Method 3", entry)
    /\ SimpleMethodDone("simple_display")

\* display_extraction_results(methods)
Display ==
    /\ pc = "simple_display"
    /\ ui' = ui \cup display_extraction_results(methods).ui
    /\ download' = display_extraction_results(methods).download
    /\ pc' = "simple_done"
    /\ UNCHANGED <<methods, copy_button, tried, dom>>
    /\ SimpleUnchanged

SimpleNext ==
    SimpleFindCopy \/ SimpleMethod1 \/ SimpleMethod2 \/ SimpleMethod3 \/ Display

SimpleSpec == SimpleInit /\ [][SimpleNext]_vars

\* Both definitions of the workflow's reporting: the one main() invokes and
\* the pair display_extraction_results belongs to
ReportInit == Init \/ SimpleInit

ReportNext == Next \/ SimpleNext

ReportSpec == ReportInit /\ [][ReportNext]_vars

(***************************************************************************)
(* The claims.                                                             *)
(***************************************************************************)

\* C1: wait_for_processing_simple always terminates.  Whatever get_log
\* does, the function reaches a return statement; the polling loop runs no
\* longer than its 60 second window plus one sleep, the fallback wait is
\* left once the clock has passed its 60 second window, and when fewer
\* than 4 distinct matching entries were delivered and the copy button was
\* never found the value returned is False.
C1_WaitTerminates ==
    /\ <>(pc \in WaitReturnSites)
    /\ [](pc \in {"wait_loop", "wait_sleep"}
            => now - start_time < PollWindow + PollSleep)
    /\ [](pc = "wait_fallback"
            => now <= end_time /\ end_time < start_time + PollWindow + PollSleep + FallbackWindow)
    /\ [](pc \in WaitReturnSites /\ Cardinality(observed) < RequiredFetches
                                 /\ ~button_found
            => /\ ~WaitReturnValue(pc)
               /\ now - start_time >= PollWindow
               /\ now <= end_time + ImplicitWait + WaitPollInterval)

\* C1 witness: both windows ran out without any signal
C1_Witness ==
    /\ pc = "wait_return_except"
    /\ observed = {}
    /\ ~button_found
    /\ now > end_time
    /\ end_time >= start_time + PollWindow + FallbackWindow

\* C2: every browser that setup_driver started is closed by driver.quit()
\* exactly once before the workflow ends, at most one exists in a run, and
\* none is left running after the run.
C2_EveryDriverQuitOnce ==
    /\ created <= 1
    /\ quitCalls <= created
    /\ (pc = "done" => quitCalls = created /\ browsers = 0)

\* What the workflow shows when it fails
ErrorMessages == {"driver_setup_failed", "processing_timeout", "test_failed"}

\* C3: any failure in the workflow main() invokes is caught in the
\* workflow: an error message is shown and the function returns normally,
\* no exception reaches main.
C3_FailuresCaught ==
    pc = "done" =>
        /\ raised = "none"
        /\ ("report" \notin {steps[i] : i \in 1..Len(steps)}
                => ui \cap ErrorMessages # {})

\* C4: when wait_for_processing_simple returned False the workflow shows
\* the processing-timeout message and abandons the run: no extraction, no
\* analysis, no success message, no download button.
C4_TimeoutAbandonsRun ==
    processing_complete = "False" =>
        /\ pc \in {"finally", "done"}
        /\ "processing_timeout" \in ui
        /\ {"extract", "analyze", "report"} \cap {steps[i] : i \in 1..Len(steps)} = {}
        /\ methods = <<>>
        /\ result = None
        /\ ui \cap {"processing_complete", "winner", "download_button"} = {}
        /\ download = None

\* C4 witness: a run that ended after the wait returned False
C4_Witness == pc = "done" /\ processing_complete = "False" /\ quitCalls = 1

\* A log entry that holds the endpoint string and the word fetch, told
\* from its words
HoldsEndpointAndFetch(log) ==
    /\ \E i \in 1..Len(log.message) : log.message[i] = endpoint
    /\ \E i \in 1..Len(log.message) : log.message[i] \in {"fetch", "Fetch"}

\* C5: wait_for_processing_simple returns True only after one of the two
\* signals: 4 distinct entries holding the endpoint and 'fetch' were
\* counted in the polling loop within its window, or, the window having
\* expired, the fallback wait found the copy button.
C5_TrueOnlyOnSignal ==
    (pc \in WaitReturnSites /\ WaitReturnValue(pc)) =>
        \/ /\ fetch_count >= RequiredFetches
           /\ Cardinality(seen_requests) >= RequiredFetches
           /\ seen_requests \subseteq
                 { LogId(log) : log \in {l \in LogUniverse : HoldsEndpointAndFetch(l)} }
           /\ end_time = 0
           /\ now - SettleSleep - start_time < PollWindow
        \/ /\ button_found
           /\ fetch_count < RequiredFetches
           /\ end_time >= start_time + PollWindow + FallbackWindow

\* C5 witness: the fallback found the button after three fetches were counted
C5_Witness == pc = "wait_return_button" /\ button_found /\ fetch_count = 3

\* C6: is_valid_json returns True exactly for the texts that parse under
\* standard JSON syntax, and False for everything else.
C6_TrueIffStandardJson ==
    pc = "json_return" => fn_out = StandardJson(fn_in)

\* C7: every stored entry with 'content' has valid_json true exactly when
\* the stored content parses as JSON.
C7_FlagMatchesContent ==
    \A k \in DOMAIN methods \ {"error"} :
        "content" \in DOMAIN methods[k]
            => methods[k].valid_json = (JsonLoads(methods[k].content) = "ok")

\* The selector list the claim speaks of, in priority order; a div matches
\* none of its selectors
SelectorPriority == <<"main", "article">>

MatchesOf(doc, tag) == SelectSeq(doc, LAMBDA c : c.tag = tag)

\* The first container that matches the first selector matching anything
SelectedContainer(doc) ==
    LET i == CHOOSE i \in 1..Len(SelectorPriority) :
                /\ MatchesOf(doc, SelectorPriority[i]) # <<>>
                /\ \A j \in 1..(i - 1) : MatchesOf(doc, SelectorPriority[j]) = <<>>
    IN  MatchesOf(doc, SelectorPriority[i])[1]

CharsOf(t) == { t[i].text : i \in 1..Len(t) }

\* C8 as stated: for a document with a container that a selector matches,
\* the content returned is taken from the first container of the first
\* matching selector, and holds no text of any other container.
C8_SelectsByPriority ==
    (/\ pc = "fetch_return"
     /\ fn_in.ok
     /\ \E i \in 1..Len(fn_in.doc) :
            fn_in.doc[i].tag \in {SelectorPriority[j] : j \in 1..Len(SelectorPriority)})
        => CharsOf(Tail(fn_out)) \subseteq CharsOf(SelectedContainer(fn_in.doc).text)

\* The k-th character of a text, and of a document read container by
\* container
RECURSIVE CharAt(_, _)
CharAt(t, k) == IF k <= Head(t).n THEN Head(t).text ELSE CharAt(Tail(t), k - Head(t).n)

RECURSIVE DocLen(_)
DocLen(doc) == IF doc = <<>> THEN 0 ELSE PieceLen(Head(doc).text) + DocLen(Tail(doc))

RECURSIVE DocCharAt(_, _)
DocCharAt(doc, k) ==
    IF k <= PieceLen(Head(doc).text) THEN CharAt(Head(doc).text, k)
    ELSE DocCharAt(Tail(doc), k - PieceLen(Head(doc).text))

\* C8 as amended: the content returned is "CONTENT: " followed by the
\* first 2000 characters of the text of the whole document, every
\* container in document order whatever selector it matches; when the
\* request fails it is the fixed test sentence.
C8_WholeTextPrefix ==
    pc = "fetch_return" =>
        IF fn_in.ok
        THEN /\ Head(fn_out) = ContentPrefix
             /\ PieceLen(Tail(fn_out)) = Min(TextLimit, DocLen(fn_in.doc))
             /\ \A k \in 1..PieceLen(Tail(fn_out)) :
                    CharAt(Tail(fn_out), k) = DocCharAt(fn_in.doc, k)
        ELSE fn_out = FallbackContent

\* C8 witness: a main container followed by an article, together longer
\* than the limit, and the content holds text of both
C8_Witness ==
    /\ pc = "fetch_return"
    /\ fn_in.ok
    /\ Len(fn_in.doc) = 2
    /\ fn_in.doc[1].tag = "main"
    /\ fn_in.doc[2].tag = "article"
    /\ DocLen(fn_in.doc) > TextLimit
    /\ CharsOf(fn_in.doc[2].text) \subseteq CharsOf(Tail(fn_out))
    /\ CharsOf(fn_in.doc[1].text) # CharsOf(fn_in.doc[2].text)

\* An entry flagged as valid JSON under the key that holds its text
FlaggedValid(entry, key) ==
    /\ key \in DOMAIN entry
    /\ "valid_json" \in DOMAIN entry
    /\ entry.valid_json

MethodKeys == DOMAIN methods \ {"error"}

\* C9: a download is offered only for content flagged as valid JSON and
\* selected as the best.  In the workflow main() invokes the button is
\* offered exactly when analyze_methods returned a pair, with the content
\* of the method it selected; in display_extraction_results exactly when
\* some method has full_content flagged valid, with the full_content of a
\* working method of greatest length.
C9_DownloadOnlyBestValid ==
    /\ ("download_button" \in ui) = (download # None)
    /\ (pc = "finally" /\ "report" \in {steps[i] : i \in 1..Len(steps)}) =>
          /\ (download # None) = (result # None)
          /\ (download # None) = (\E k \in MethodKeys : FlaggedValid(methods[k], "content"))
          /\ download # None =>
                /\ result[1] \in MethodKeys
                /\ result[2] = methods[result[1]]
                /\ FlaggedValid(methods[result[1]], "content")
                /\ download = methods[result[1]].content
    /\ pc = "simple_done" =>
          /\ (download # None) =
                (\E k \in MethodKeys : FlaggedValid(methods[k], "full_content"))
          /\ download # None =>
                \E k \in MethodKeys :
                    /\ FlaggedValid(methods[k], "full_content")
                    /\ download = methods[k].full_content
                    /\ \A j \in MethodKeys :
                          FlaggedValid(methods[j], "full_content")
                              => methods[j].length <= methods[k].length

\* C9 witness: the download is offered while another method holds longer
\* content that is not flagged valid
C9_Witness ==
    /\ pc = "finally"
    /\ download # None
    /\ \E k \in MethodKeys :
          /\ "content" \in DOMAIN methods[k]
          /\ ~methods[k].valid_json
          /\ PyLen(methods[k].content) > PyLen(download)

\* C10: analyze_methods returns None exactly when no entry has 'content'
\* and valid_json true; otherwise the pair (name, methods[name]) of such an
\* entry whose content is at least as long as that of every other such one.
C10_AnalyzeBestValid ==
    pc = "analyze_return" =>
        LET valid == { k \in DOMAIN fn_in : FlaggedValid(fn_in[k], "content") }
        IN  /\ (fn_out = None) = (valid = {})
            /\ fn_out # None =>
                  /\ fn_out[1] \in valid
                  /\ fn_out[2] = fn_in[fn_out[1]]
                  /\ \A k \in valid :
                        PyLen(fn_in[k].content) <= PyLen(fn_out[2].content)

\* C10 witness: a pair is returned though an entry that is not valid, and
\* one that holds only an error, come with it, the invalid one the longest
C10_Witness ==
    /\ pc = "analyze_return"
    /\ fn_out # None
    /\ \E k \in DOMAIN fn_in : "error" \in DOMAIN fn_in[k]
    /\ \E k \in DOMAIN fn_in :
          /\ "content" \in DOMAIN fn_in[k]
          /\ ~fn_in[k].valid_json
          /\ PyLen(fn_in[k].content) > PyLen(fn_out[2].content)

\* The steps of a run in the order the workflow lists them
StepOrder ==
    <<"fetch", "setup", "navigate", "fill", "submit", "wait", "extract",
      "analyze", "report">>

ExtractionSites ==
    {"method1", "method2", "method3", "method4", "method5", "method6"}

\* C11: the steps a run has taken are always the first ones of the fixed
\* order fetch, setup, navigate, fill, submit, wait, extract, analyze,
\* report, each once and none left out before a later one; so submit is
\* never clicked before the input was filled, and no extraction method
\* runs, and no entry is stored, before wait_for_processing_simple has
\* returned True.
C11_LinearOrder ==
    /\ Len(steps) <= Len(StepOrder)
    /\ \A i \in 1..Len(steps) : steps[i] = StepOrder[i]
    /\ pc \in ExtractionSites \cup {"analyze", "report"}
          => /\ processing_complete = "True"
             /\ \E i \in 1..Len(steps) : steps[i] = "wait"
    /\ methods # <<>> => processing_complete = "True"
    /\ (\E i \in 1..Len(steps) : steps[i] \in {"extract", "analyze", "report"})
          => processing_complete = "True"
    /\ pc \in WaitReturnSites \cup {"wait_loop", "wait_sleep", "wait_fallback"}
          => /\ Len(steps) = 6
             /\ methods = <<>>

\* C11 witness: a run that went through every step and ended
C11_Witness ==
    /\ pc = "done"
    /\ steps = StepOrder
    /\ download # None
    /\ quitCalls = 1

\* The program point of the n-th extraction method
ExtractionSite(n) ==
    <<"method1", "method2", "method3", "method4", "method5", "method6">>[n]

SixKeys ==
    {"Method 1", "Method 2", "Method 3", "Method 4", "Method 5", "Method 6"}

\* C12: test_extraction_methods returns a dictionary with exactly the keys
\* 'Method 1' to 'Method 6', each entry holding either an 'error' or the
\* 'content'; the n-th method starts with exactly the entries of the n - 1
\* methods before it, whatever they stored, and storing its own entry it
\* leaves every earlier entry as it was.
C12_SixEntriesAlways ==
    /\ [](pc = "analyze" =>
            /\ DOMAIN methods = SixKeys
            /\ \A k \in SixKeys :
                  ("error" \in DOMAIN methods[k]) # ("content" \in DOMAIN methods[k]))
    /\ [](\A n \in 1..6 :
            pc = ExtractionSite(n)
                => DOMAIN methods = { MethodOrder[j] : j \in 1..(n - 1) })
    /\ [][\A n \in 1..6 :
            pc = ExtractionSite(n) =>
                /\ pc' = (IF n < 6 THEN ExtractionSite(n + 1) ELSE "analyze")
                /\ DOMAIN methods' = DOMAIN methods \cup {MethodOrder[n]}
                /\ \A k \in DOMAIN methods : methods'[k] = methods[k]]_vars

\* C12 witness: the dictionary is returned with the first, third and fifth
\* method failed and the second, fourth and sixth holding content
C12_Witness ==
    /\ pc = "analyze"
    /\ \A k \in {"Method 1", "Method 3", "Method 5"} : "error" \in DOMAIN methods[k]
    /\ \A k \in {"Method 2", "Method 4", "Method 6"} : "content" \in DOMAIN methods[k]

\* The identifiers of the matching entries among logs, the entries told
\* from their words
MatchingIds(logs) == { LogId(l) : l \in { e \in logs : HoldsEndpointAndFetch(e) } }

PollingSites == {"wait_loop", "wait_sleep"}

\* C13: in the polling loop fetch_count is the number of identifiers in
\* seen_requests and at most 4; the identifiers are those of the matching
\* entries delivered so far, each counted once however often it came, and
\* entries without the endpoint or without 'fetch' count for nothing; from
\* one poll to the next the count and the set only grow.
C13_CountIsSeenSize ==
    /\ [](pc \in PollingSites \cup WaitReturnSites \cup {"wait_fallback"} =>
            /\ fetch_count = Cardinality(seen_requests)
            /\ fetch_count <= RequiredFetches
            /\ seen_requests \subseteq MatchingIds(observed)
            /\ pc \in PollingSites =>
                  seen_requests = { LogId(l) : l \in observed })
    /\ [][/\ fetch_count' >= fetch_count
          /\ seen_requests \subseteq seen_requests'
          /\ fetch_count' - fetch_count
                = Cardinality(seen_requests' \ seen_requests)]_vars

\* C13 witness: three fetches counted over more than one poll, time having
\* passed in between
C13_Witness ==
    /\ pc = "wait_loop"
    /\ fetch_count = 3
    /\ Cardinality(seen_requests) = 3
    /\ now > start_time + PollSleep

\* The selectors in the order the function lists them, the primary first
SelectorOrder == <<PrimarySelector>> \o alternative_selectors

\* The first selectors of the order, up to the n-th
FirstSelectors(n) == SubSeq(SelectorOrder, 1, n)

\* C14: test_simple_extraction_methods takes the first element of the
\* first selector that matches, the primary selector before the
\* alternatives and these in listed order, and queries no selector after
\* the one that matched; when none matches it returns
\* {'error': 'No copy button found'} and stores no entry of Method 1, 2 or 3.
C14_CopyButtonByPriority ==
    pc \notin {"simple_find"} /\ dom # <<>> =>
        IF \E i \in 1..Len(SelectorOrder) : dom[i] # <<>>
        THEN LET first == CHOOSE i \in 1..Len(SelectorOrder) :
                              /\ dom[i] # <<>>
                              /\ \A j \in 1..(i - 1) : dom[j] = <<>>
             IN  /\ copy_button = dom[first][1]
                 /\ tried = FirstSelectors(first)
                 /\ "error" \notin DOMAIN methods
        ELSE /\ copy_button = "None"
             /\ tried = SelectorOrder
             /\ methods = [error |-> "No copy button found"]
             /\ pc \in {"simple_display", "simple_done"}

\* C14 witness: the primary selector and the first alternative match
\* nothing, the second alternative matches two elements and a later one
\* matches too; the first element of the second alternative was taken
C14_Witness ==
    /\ pc = "simple_method1"
    /\ dom # <<>>
    /\ dom[1] = <<>>
    /\ dom[2] = <<>>
    /\ dom[3] = <<"e2", "e1">>
    /\ dom[4] = <<"e1">>
    /\ copy_button = "e2"

=============================================================================
